---- MODULE Spec2Model ----
(***************************************************************************)
(* Model of the scoring and persistence module (scoring.py): run_scoring,  *)
(* the three ledger writers _save_score, _append_recent, _append_save_db   *)
(* and the reader load_recent_submissions.                                 *)
(*                                                                         *)
(* Scores are kept in hundredths of a point (80.0 is 8000), so that the    *)
(* two-decimal rounding of run_scoring is exact integer arithmetic.  A     *)
(* best-score cell is the character sequence the code formats and parses.  *)
(* A ledger file is a record: kind "missing" (the path does not exist),    *)
(* "garbage" (pd.read_csv raises on it) or "table" (columns and rows).     *)
(* A failing to_csv leaves the file as it was.                             *)
(***************************************************************************)
EXTENDS Integers, Sequences, FiniteSets, TLC

VARIABLES
    answers,        \* ANSWER_FILES: case -> the answer file on disk
    save_score,     \* SAVE_SCORE_PATH: the best-score table
    score_recent,   \* RECENT_SCORE_PATH: the recency log
    save_db,        \* SAVE_DB_PATH: the audit log
    clock,          \* datetime.now(), in seconds
    pc,             \* per caller: where its run_scoring call stands
    loc,            \* per caller: the locals of its call (case, team, score, submitted_at, df)
    result,         \* per caller: what its last call returned
    view,           \* what the last load_recent_submissions returned
    calls,          \* number of run_scoring calls started
    okHist,         \* history: the rows of the calls that returned status ok, in order
    nPersist,       \* history: number of calls that reached the persistence stage
    faulted,        \* history: whether a crash or a failed to_csv write has happened
    initFiles,      \* history: per caller, the three ledger files as its call found them
    recentEver,     \* history: every row ever written to the recency log
    overlap,        \* history: per ledger, whether two callers held a read of it at once
    lastWriter      \* history: per ledger, the caller that wrote it last (0: nobody)

vars == <<answers, save_score, score_recent, save_db, clock, pc, loc, result, view,
          calls, okHist, nPersist, faulted, initFiles, recentEver, overlap, lastWriter>>

----------------------------------------------------------------------------
(* Bounds of the model. *)

MaxCalls == 2
MaxCallsRecent == 11
MaxTeam == 2
MaxPredLen == 7
MaxAnsLen == 5
MaxLimit == 11

(* Program constants. *)

MAX_RECENT == 10
Unparsed == -100        \* the -1.0 of _parse_score_from_cell, in hundredths

Cases == {"case2", "case3"}
Teams == 1..MaxTeam
Labels == {0, 1}
Procs == {1, 2}

Min(a, b) == IF a < b THEN a ELSE b

----------------------------------------------------------------------------
(* Text: formatting and parsing of the best-score cell. *)

DigitChars == <<"0", "1", "2", "3", "4", "5", "6", "7", "8", "9">>
DigitChar(d) == DigitChars[d + 1]
IsDigit(ch) == \E d \in 0..9 : DigitChar(d) = ch
DigitVal(ch) == CHOOSE d \in 0..9 : DigitChar(d) = ch

RECURSIVE Digits(_)
Digits(n) == IF n < 10 THEN <<DigitChar(n)>> ELSE Digits(n \div 10) \o <<DigitChar(n % 10)>>

\* f"{score}" of a float that round() brought to two decimals: the shortest repr.
FormatScore(h) ==
    Digits(h \div 100) \o <<".">> \o
        (IF h % 10 = 0 THEN <<DigitChar((h % 100) \div 10)>>
                       ELSE <<DigitChar((h % 100) \div 10), DigitChar(h % 10)>>)

\* strftime of the clock: a digit string, which never holds a parenthesis.
FormatTime(t) == Digits(t)

\* value = f"{score}({submitted_at})"
FormatCell(h, t) == FormatScore(h) \o <<"(">> \o FormatTime(t) \o <<")">>

\* s.split("(")[0] if "(" in s else s
BeforeParen(s) ==
    IF \E i \in 1..Len(s) : s[i] = "("
        THEN SubSeq(s, 1, (CHOOSE i \in 1..Len(s) : s[i] = "(" /\ \A j \in 1..(i - 1) : s[j] # "(") - 1)
        ELSE s

RECURSIVE DigitsVal(_)
DigitsVal(s) == IF Len(s) = 0 THEN 0 ELSE 10 * DigitsVal(SubSeq(s, 1, Len(s) - 1)) + DigitVal(s[Len(s)])

AllDigits(s) == \A i \in 1..Len(s) : IsDigit(s[i])

\* float(score_str), in hundredths; Unparsed where float() raises ValueError.  Decimal
\* literals of at most two fraction digits are read; the cells the code writes are such.
ParseFloat(s) ==
    IF \E i \in 1..Len(s) : s[i] = "."
        THEN LET i == CHOOSE k \in 1..Len(s) : s[k] = "." /\ \A j \in 1..(k - 1) : s[j] # "."
                 ip == SubSeq(s, 1, i - 1)
                 fp == SubSeq(s, i + 1, Len(s))
             IN  IF AllDigits(ip) /\ AllDigits(fp) /\ Len(ip) + Len(fp) > 0 /\ Len(fp) <= 2
                     THEN 100 * DigitsVal(ip)
                          + (IF Len(fp) = 0 THEN 0
                             ELSE IF Len(fp) = 1 THEN 10 * DigitVal(fp[1])
                             ELSE 10 * DigitVal(fp[1]) + DigitVal(fp[2]))
                     ELSE Unparsed
        ELSE IF Len(s) > 0 /\ AllDigits(s) THEN 100 * DigitsVal(s) ELSE Unparsed

\* _parse_score_from_cell: an empty cell (NaN after read_csv) or a bad number is -1.
ParseScoreFromCell(cell) ==
    IF Len(cell) = 0 THEN Unparsed ELSE ParseFloat(BeforeParen(cell))

\* f"{team_id}팀"
TeamLabel(t) == <<t, "tim">>

----------------------------------------------------------------------------
(* The scorer: lines 43-88 of run_scoring. *)

\* An uploaded file: "malformed" (pd.read_csv raises), "nopredict" (parses, no predict
\* column), "badvalues" (astype(int) raises) or "ok" with its predict column.
Upload(kind, predict) == [kind |-> kind, predict |-> predict]

\* An answer file: "absent", "nocol" (no answer column), "badvalues" or "ok".
AnswerFile(kind, vals) == [kind |-> kind, vals |-> vals]

\* Variant: the check for the predict column is left out.
NoPredictColumnNever(upload) == FALSE

\* "predict" not in submit_df.columns
NoPredictColumn(upload) == upload.kind = "nopredict"

\* not answer_path.exists()
AnswerMissing(ans) == ans.kind = "absent"

\* min_len = min(len(predict), len(answer))
MinLen(predict, answer) == Min(Len(predict), Len(answer))

\* accuracy_score on two arrays of one length: the number of positions that agree
RECURSIVE CountEqual(_, _)
CountEqual(a, b) ==
    IF Len(a) = 0 THEN 0
    ELSE (IF Head(a) = Head(b) THEN 1 ELSE 0) + CountEqual(Tail(a), Tail(b))

\* Variant: the score is cut to two decimals, not rounded.
Round2Floor(num, den) == (10000 * num) \div den

\* round(num / den * 100.0, 2) in hundredths: to nearest, a tie to the even neighbour
Round2(num, den) ==
    LET q == (10000 * num) \div den
        r == (10000 * num) % den
    IN  IF 2 * r < den THEN q
        ELSE IF 2 * r > den THEN q + 1
        ELSE IF q % 2 = 0 THEN q ELSE q + 1

\* predict[:min_len], answer[:min_len], accuracy_score, round
Score100(predict, answer) ==
    LET m == MinLen(predict, answer)
    IN  Round2(CountEqual(SubSeq(answer, 1, m), SubSeq(predict, 1, m)), m)

\* What lines 45-87 come to: "return" an error result, "raise" an exception, or go on
\* to the persistence stage ("persist") with a score.
Outcome(tag, details, score) == [tag |-> tag, details |-> details, score |-> score]

Scoring(upload, ans) ==
    IF upload.kind = "malformed" THEN Outcome("raise", "ParserError", 0)
    ELSE IF NoPredictColumn(upload) THEN Outcome("return", "no_predict_column", 0)
    ELSE IF upload.kind # "ok" THEN
        Outcome("raise", IF upload.kind = "nopredict" THEN "KeyError" ELSE "ValueError", 0)
    ELSE IF AnswerMissing(ans) THEN Outcome("return", "no_answer_file", 0)
    ELSE IF ans.kind = "absent" THEN Outcome("raise", "FileNotFoundError", 0)
    ELSE IF ans.kind = "nocol" THEN Outcome("return", "no_answer_column", 0)
    ELSE IF ans.kind # "ok" THEN Outcome("raise", "ValueError", 0)
    ELSE IF MinLen(upload.predict, ans.vals) = 0 THEN Outcome("return", "empty_data", 0)
    ELSE Outcome("persist", "ok", Score100(upload.predict, ans.vals))

\* Variant: the handler is "except ValueError".
CatchesValueErrorOnly(exc) == exc = "ValueError"

\* except Exception as e
Catches(exc) == TRUE

NoResult == [status |-> "none", score |-> 0, details |-> "none"]
ErrorResult(details) == [status |-> "error", score |-> 0, details |-> details]
OkResult(score) == [status |-> "ok", score |-> score, details |-> "summary"]

----------------------------------------------------------------------------
(* The ledger files and the table each writer builds. *)

BestCols == {"team", "case2", "case3"}
LogCols == {"team", "case", "score", "submitted_at"}

MissingFile == [kind |-> "missing", cols |-> {}, rows |-> <<>>]
GarbageFile == [kind |-> "garbage", cols |-> {}, rows |-> <<>>]
TableFile(cols, rows) == [kind |-> "table", cols |-> cols, rows |-> rows]

\* The DataFrame a writer starts from: the file's rows when the file exists and has all
\* of cols, else pd.DataFrame(columns=cols).
ReadTable(file, cols) ==
    IF file.kind = "table" /\ cols \subseteq file.cols THEN file.rows ELSE <<>>

\* Variant: the writer reads the file again as it writes, as it would under a lock.
WriterTableFresh(df, file, cols) == ReadTable(file, cols)

\* The table a writer updates and writes is the DataFrame df it read earlier; the file
\* is not read again, and not locked, between the read and to_csv.
WriterTable(df, file, cols) == df

\* Variant: "if score >= current_score".
ScoreBeatsOrTies(score, current) == score >= current

\* if score > current_score
ScoreBeats(score, current) == score > current

\* Variant: the team label never matches a stored row.
HasTeamNever(df, label) == FALSE

\* mask = df["team"].astype(str).str.strip() == team_label
HasTeam(df, label) == \E i \in 1..Len(df) : df[i].team = label

\* df.loc[mask].index[0]
FirstIndex(df, label) ==
    CHOOSE i \in 1..Len(df) : df[i].team = label /\ \A j \in 1..(i - 1) : df[j].team # label

\* new_row = {"team": team_label, "case2": "", "case3": ""}; new_row[case] = value
NewBestRow(label, case, value) ==
    [[team |-> label, case2 |-> <<>>, case3 |-> <<>>] EXCEPT ![case] = value]

\* lines 141-152 of _save_score (pandas 2: a string stored into an all-empty column
\* upcasts the column, it does not raise)
UpdateBest(df, team, case, score, at) ==
    LET label == TeamLabel(team)
        value == FormatCell(score, at)
    IN  IF HasTeam(df, label)
            THEN LET idx == FirstIndex(df, label)
                 IN  IF ScoreBeats(score, ParseScoreFromCell(df[idx][case]))
                         THEN [df EXCEPT ![idx] = [@ EXCEPT ![case] = value]]
                         ELSE df
            ELSE Append(df, NewBestRow(label, case, value))

\* {"team": f"{team_id}팀", "case": case, "score": score, "submitted_at": submitted_at}
LogRow(team, case, score, at) ==
    [team |-> TeamLabel(team), case |-> case, score |-> score, submitted_at |-> at]

\* Variant: df.head(n).
HeadRows(df, n) == IF Len(df) <= n THEN df ELSE SubSeq(df, 1, n)

\* df.tail(n), n >= 0
TailRows(df, n) == IF Len(df) <= n THEN df ELSE SubSeq(df, Len(df) - n + 1, Len(df))

\* df.iloc[::-1]
RECURSIVE Reversed(_)
Reversed(df) == IF Len(df) = 0 THEN <<>> ELSE Append(Reversed(Tail(df)), Head(df))

\* lines 172-173 of _append_recent
AppendRecentRows(df, row) == TailRows(Append(df, row), MAX_RECENT)

\* line 192 of _append_save_db
AppendDbRows(df, row) == Append(df, row)

\* load_recent_submissions
LoadRecentSubmissions(file, limit) ==
    IF file.kind # "table" \/ ~(LogCols \subseteq file.cols) THEN <<>>
    ELSE Reversed(TailRows(file.rows, limit))

\* Variant: the audit log is written first.
StageAfterAuditFirst(stage) ==
    CASE stage = "scored" -> "append_save_db_read"
      [] stage = "append_save_db_write" -> "save_score_read"
      [] stage = "save_score_write" -> "append_recent_read"
      [] stage = "append_recent_write" -> "return"

\* The order of lines 90-101 of run_scoring: best-score table, recency log, audit log.
StageAfter(stage) ==
    CASE stage = "scored" -> "save_score_read"
      [] stage = "save_score_write" -> "append_recent_read"
      [] stage = "append_recent_write" -> "append_save_db_read"
      [] stage = "append_save_db_write" -> "return"

----------------------------------------------------------------------------
(* The callers' steps.  A writer is two steps, its read of the file and its write of   *)
(* the whole table, since nothing locks the file between them.                        *)

Ledgers == {"save_score", "score_recent", "save_db"}

\* No load_recent_submissions result is on the page.
NoView == [limit |-> -1, rows |-> <<>>]

NoLoc == [case |-> "none", team |-> 0, score |-> 0, at |-> 0, df |-> <<>>,
          upkind |-> "none", predict |-> <<>>, persist |-> FALSE, exc |-> "none",
          written |-> 0]

\* Another caller holds a read of the ledger whose write step is wpc.
HeldByOther(p, wpc) == \E q \in Procs \ {p} : pc[q] = wpc

\* An exception leaves the try block: lines 102-107.
EndRaise(p, exc, l) ==
    /\ pc' = [pc EXCEPT ![p] = IF Catches(exc) THEN "done" ELSE "raised"]
    /\ result' = [result EXCEPT ![p] = IF Catches(exc) THEN ErrorResult(exc) ELSE NoResult]
    /\ loc' = [loc EXCEPT ![p] = [l EXCEPT !.exc = exc]]

\* run_scoring, lines 43-88: load, validate, score, take the timestamp.
RunScoring(p, upload, case, team, tick) ==
    /\ pc[p] \in {"idle", "done"}
    /\ calls' = calls + 1
    /\ view' = NoView
    /\ initFiles' = [initFiles EXCEPT ![p] = <<save_score, score_recent, save_db>>]
    /\ LET o == Scoring(upload, answers[case])
           l == [NoLoc EXCEPT !.case = case, !.team = team, !.upkind = upload.kind,
                              !.predict = upload.predict]
       IN  CASE o.tag = "return" ->
                    /\ pc' = [pc EXCEPT ![p] = "done"]
                    /\ result' = [result EXCEPT ![p] = ErrorResult(o.details)]
                    /\ loc' = [loc EXCEPT ![p] = l]
                    /\ UNCHANGED <<clock, nPersist>>
             [] o.tag = "raise" ->
                    /\ EndRaise(p, o.details, l)
                    /\ UNCHANGED <<clock, nPersist>>
             [] o.tag = "persist" ->
                    /\ clock' = clock + tick
                    /\ pc' = [pc EXCEPT ![p] = StageAfter("scored")]
                    /\ result' = [result EXCEPT ![p] = NoResult]
                    /\ loc' = [loc EXCEPT ![p] = [l EXCEPT !.score = o.score, !.at = clock + tick,
                                                               !.persist = TRUE]]
                    /\ nPersist' = nPersist + 1
    /\ UNCHANGED <<answers, save_score, score_recent, save_db, okHist, faulted,
                   recentEver, overlap, lastWriter>>

\* _save_score, lines 127-140: pd.read_csv stands outside any try.
SaveScoreRead(p) ==
    /\ pc[p] = "save_score_read"
    /\ IF save_score.kind = "garbage"
          THEN /\ EndRaise(p, "EmptyDataError", loc[p])
               /\ UNCHANGED overlap
          ELSE /\ pc' = [pc EXCEPT ![p] = "save_score_write"]
               /\ loc' = [loc EXCEPT ![p].df = ReadTable(save_score, BestCols)]
               /\ overlap' = [overlap EXCEPT !["save_score"] = @ \/ HeldByOther(p, "save_score_write")]
               /\ UNCHANGED result
    /\ UNCHANGED <<answers, save_score, score_recent, save_db, clock, view, calls, okHist,
                   nPersist, faulted, initFiles, recentEver, lastWriter>>

\* _save_score, lines 141-154: update the caller's table, write the whole of it.
SaveScoreWrite(p, iofail) ==
    /\ pc[p] = "save_score_write"
    /\ IF iofail
          THEN /\ EndRaise(p, "OSError", loc[p])
               /\ faulted' = TRUE
               /\ UNCHANGED <<save_score, lastWriter>>
          ELSE /\ save_score' = TableFile(BestCols,
                                    UpdateBest(WriterTable(loc[p].df, save_score, BestCols),
                                               loc[p].team, loc[p].case, loc[p].score, loc[p].at))
               /\ pc' = [pc EXCEPT ![p] = StageAfter("save_score_write")]
               /\ loc' = [loc EXCEPT ![p].written = @ + 1]
               /\ lastWriter' = [lastWriter EXCEPT !["save_score"] = p]
               /\ UNCHANGED <<result, faulted>>
    /\ UNCHANGED <<answers, score_recent, save_db, clock, view, calls, okHist, nPersist,
                   initFiles, recentEver, overlap>>

\* _append_recent, lines 159-170: a read that fails is caught and starts afresh.
AppendRecentRead(p) ==
    /\ pc[p] = "append_recent_read"
    /\ pc' = [pc EXCEPT ![p] = "append_recent_write"]
    /\ loc' = [loc EXCEPT ![p].df = ReadTable(score_recent, LogCols)]
    /\ overlap' = [overlap EXCEPT !["score_recent"] = @ \/ HeldByOther(p, "append_recent_write")]
    /\ UNCHANGED <<answers, save_score, score_recent, save_db, clock, result, view, calls,
                   okHist, nPersist, faulted, initFiles, recentEver, lastWriter>>

\* _append_recent, lines 172-174
AppendRecentWrite(p, iofail) ==
    /\ pc[p] = "append_recent_write"
    /\ IF iofail
          THEN /\ EndRaise(p, "OSError", loc[p])
               /\ faulted' = TRUE
               /\ UNCHANGED <<score_recent, lastWriter, recentEver>>
          ELSE LET row == LogRow(loc[p].team, loc[p].case, loc[p].score, loc[p].at)
                   df == WriterTable(loc[p].df, score_recent, LogCols)
               IN  /\ score_recent' = TableFile(LogCols, AppendRecentRows(df, row))
                   /\ recentEver' = recentEver \cup {row}
                   /\ pc' = [pc EXCEPT ![p] = StageAfter("append_recent_write")]
                   /\ loc' = [loc EXCEPT ![p].written = @ + 1]
                   /\ lastWriter' = [lastWriter EXCEPT !["score_recent"] = p]
                   /\ UNCHANGED <<result, faulted>>
    /\ UNCHANGED <<answers, save_score, save_db, clock, view, calls, okHist, nPersist,
                   initFiles, overlap>>

\* _append_save_db, lines 179-190
AppendSaveDbRead(p) ==
    /\ pc[p] = "append_save_db_read"
    /\ pc' = [pc EXCEPT ![p] = "append_save_db_write"]
    /\ loc' = [loc EXCEPT ![p].df = ReadTable(save_db, LogCols)]
    /\ overlap' = [overlap EXCEPT !["save_db"] = @ \/ HeldByOther(p, "append_save_db_write")]
    /\ UNCHANGED <<answers, save_score, score_recent, save_db, clock, result, view, calls,
                   okHist, nPersist, faulted, initFiles, recentEver, lastWriter>>

\* _append_save_db, lines 192-193
AppendSaveDbWrite(p, iofail) ==
    /\ pc[p] = "append_save_db_write"
    /\ IF iofail
          THEN /\ EndRaise(p, "OSError", loc[p])
               /\ faulted' = TRUE
               /\ UNCHANGED <<save_db, lastWriter>>
          ELSE LET row == LogRow(loc[p].team, loc[p].case, loc[p].score, loc[p].at)
                   df == WriterTable(loc[p].df, save_db, LogCols)
               IN  /\ save_db' = TableFile(LogCols, AppendDbRows(df, row))
                   /\ pc' = [pc EXCEPT ![p] = StageAfter("append_save_db_write")]
                   /\ loc' = [loc EXCEPT ![p].written = @ + 1]
                   /\ lastWriter' = [lastWriter EXCEPT !["save_db"] = p]
                   /\ UNCHANGED <<result, faulted>>
    /\ UNCHANGED <<answers, save_score, score_recent, clock, view, calls, okHist, nPersist,
                   initFiles, recentEver, overlap>>

\* run_scoring, lines 97-101: the ok result.
Return(p) ==
    /\ pc[p] = "return"
    /\ pc' = [pc EXCEPT ![p] = "done"]
    /\ result' = [result EXCEPT ![p] = OkResult(loc[p].score)]
    /\ okHist' = Append(okHist, LogRow(loc[p].team, loc[p].case, loc[p].score, loc[p].at))
    /\ UNCHANGED <<answers, save_score, score_recent, save_db, clock, loc, view, calls,
                   nPersist, faulted, initFiles, recentEver, overlap, lastWriter>>

\* The process dies in the middle of lines 90-101; its caller gets nothing.
Crash(p) ==
    /\ pc[p] \notin {"idle", "done", "raised"}
    /\ pc' = [pc EXCEPT ![p] = "idle"]
    /\ result' = [result EXCEPT ![p] = NoResult]
    /\ loc' = [loc EXCEPT ![p] = NoLoc]
    /\ faulted' = TRUE
    /\ UNCHANGED <<answers, save_score, score_recent, save_db, clock, view, calls, okHist,
                   nPersist, initFiles, recentEver, overlap, lastWriter>>

\* The page calls load_recent_submissions(limit) between two submissions.
LoadRecent(limit) ==
    /\ \A p \in Procs : pc[p] \in {"idle", "done"}
    /\ view' = [limit |-> limit, rows |-> LoadRecentSubmissions(score_recent, limit)]
    /\ UNCHANGED <<answers, save_score, score_recent, save_db, clock, pc, loc, result,
                   calls, okHist, nPersist, faulted, initFiles, recentEver, overlap, lastWriter>>

----------------------------------------------------------------------------
(* Initial states and the specifications. *)

\* A ledger file before the first call: not there, unreadable, or a table that lacks
\* expected columns.
StartFiles == {MissingFile, GarbageFile, TableFile({"team"}, <<[team |-> TeamLabel(1)]>>)}

InitHistory ==
    /\ clock = 0
    /\ pc = [p \in Procs |-> "idle"]
    /\ loc = [p \in Procs |-> NoLoc]
    /\ result = [p \in Procs |-> NoResult]
    /\ view = NoView
    /\ calls = 0
    /\ okHist = <<>>
    /\ nPersist = 0
    /\ faulted = FALSE
    /\ initFiles = [p \in Procs |-> <<MissingFile, MissingFile, MissingFile>>]
    /\ recentEver = {}
    /\ overlap = [f \in Ledgers |-> FALSE]
    /\ lastWriter = [f \in Ledgers |-> 0]

\* Sequential use: one caller, every kind of upload, failing writes and crashes; each
\* scored submission falls in a later second than the one before.
Case3Answers ==
    {AnswerFile("absent", <<>>), AnswerFile("nocol", <<>>), AnswerFile("badvalues", <<>>),
     AnswerFile("ok", <<1, 0, 1>>)}

MainUploads ==
    {Upload("malformed", <<>>), Upload("nopredict", <<>>), Upload("badvalues", <<>>)}
    \cup {Upload("ok", q) : q \in {<<>>, <<1, 0>>, <<0, 1>>, <<1, 0, 0>>}}

Init ==
    /\ answers \in {[c \in Cases |-> IF c = "case2" THEN AnswerFile("ok", <<1, 0>>) ELSE a] :
                        a \in Case3Answers}
    /\ save_score \in StartFiles
    /\ score_recent \in StartFiles
    /\ save_db \in StartFiles
    /\ InitHistory

Next ==
    \/ /\ calls < MaxCalls
       /\ \E u \in MainUploads, c \in Cases, t \in Teams, k \in {1} : RunScoring(1, u, c, t, k)
    \/ SaveScoreRead(1)
    \/ \E f \in BOOLEAN : SaveScoreWrite(1, f)
    \/ AppendRecentRead(1)
    \/ \E f \in BOOLEAN : AppendRecentWrite(1, f)
    \/ AppendSaveDbRead(1)
    \/ \E f \in BOOLEAN : AppendSaveDbWrite(1, f)
    \/ Return(1)
    \/ Crash(1)

Spec == Init /\ [][Next]_vars

\* The scorer alone: every answer column and every predict column within the bounds.
SeqsUpTo(n) == UNION {[1..k -> Labels] : k \in 0..n}

InitScore ==
    /\ answers \in {[c \in Cases |-> AnswerFile("ok", a)] : a \in SeqsUpTo(MaxAnsLen)}
    /\ save_score = MissingFile
    /\ score_recent = MissingFile
    /\ save_db = MissingFile
    /\ InitHistory

NextScore ==
    /\ calls < 1
    /\ \E q \in SeqsUpTo(MaxPredLen) : RunScoring(1, Upload("ok", q), "case2", 1, 1)

SpecScore == InitScore /\ [][NextScore]_vars

\* The recency log over a long run of submissions, with the page reading it in between.
GoodAnswers == [c \in Cases |-> AnswerFile("ok", <<1, 0>>)]

InitRecent ==
    /\ answers = GoodAnswers
    /\ save_score = MissingFile
    /\ score_recent \in StartFiles
    /\ save_db = MissingFile
    /\ InitHistory

NextRecent ==
    \/ /\ calls < MaxCallsRecent
       /\ \E q \in {<<1, 0>>, <<0, 1>>} : RunScoring(1, Upload("ok", q), "case2", 1, 1)
    \/ SaveScoreRead(1)
    \/ SaveScoreWrite(1, FALSE)
    \/ AppendRecentRead(1)
    \/ AppendRecentWrite(1, FALSE)
    \/ AppendSaveDbRead(1)
    \/ AppendSaveDbWrite(1, FALSE)
    \/ Return(1)
    \/ \E n \in 0..MaxLimit : LoadRecent(n)

SpecRecent == InitRecent /\ [][NextRecent]_vars

\* Two callers, one call each, their steps interleaved in every way.
InitConc ==
    /\ answers = GoodAnswers
    /\ save_score = MissingFile
    /\ score_recent = MissingFile
    /\ save_db = MissingFile
    /\ InitHistory

NextConc ==
    \E p \in Procs :
        \/ /\ pc[p] = "idle"
           /\ \E q \in {<<1, 0>>, <<1, 1>>}, c \in Cases, t \in Teams, k \in {0, 1} :
                  RunScoring(p, Upload("ok", q), c, t, k)
        \/ SaveScoreRead(p)
        \/ SaveScoreWrite(p, FALSE)
        \/ AppendRecentRead(p)
        \/ AppendRecentWrite(p, FALSE)
        \/ AppendSaveDbRead(p)
        \/ AppendSaveDbWrite(p, FALSE)
        \/ Return(p)

SpecConc == InitConc /\ [][NextConc]_vars

----------------------------------------------------------------------------
(* What the claims speak of. *)

\* No call is under way.
Quiet == \A p \in Procs : pc[p] \in {"idle", "done"}

\* The stored cell of a team label and case; empty when the table or the row is not there.
BestCellOf(label, c) ==
    IF save_score.kind = "table" /\ BestCols \subseteq save_score.cols /\ HasTeam(save_score.rows, label)
        THEN save_score.rows[FirstIndex(save_score.rows, label)][c]
        ELSE <<>>

StoredScore(label, c) == ParseScoreFromCell(BestCellOf(label, c))

\* The timestamp a cell carries between its parentheses.
CellTime(cell) ==
    LET open == CHOOSE i \in 1..Len(cell) : cell[i] = "("
    IN  DigitsVal(SubSeq(cell, open + 1, Len(cell) - 1))

\* The rows of the ok calls of one team and case, and the best score among them.
OkRows(t, c) == {i \in 1..Len(okHist) : okHist[i].team = TeamLabel(t) /\ okHist[i].case = c}
MaxOkScore(t, c) ==
    IF OkRows(t, c) = {} THEN Unparsed
    ELSE CHOOSE m \in {okHist[i].score : i \in OkRows(t, c)} :
             \A i \in OkRows(t, c) : okHist[i].score <= m
FirstMaxTime(t, c) ==
    LET first == CHOOSE i \in OkRows(t, c) :
                     /\ okHist[i].score = MaxOkScore(t, c)
                     /\ \A j \in OkRows(t, c) : okHist[j].score = MaxOkScore(t, c) => i <= j
    IN  okHist[first].submitted_at

\* The rows of a log file that has the log's columns.
LogRows(file) == IF file.kind = "table" /\ LogCols \subseteq file.cols THEN file.rows ELSE <<>>

Malformed(file, cols) == file.kind = "garbage" \/ (file.kind = "table" /\ ~(cols \subseteq file.cols))

Files == <<save_score, score_recent, save_db>>

----------------------------------------------------------------------------
(* C1: once every call that reached the persistence stage has returned ok, the score   *)
(* parsed from the cell of each team and case is the highest score submitted for it,   *)
(* and the cell carries the timestamp of the first submission that reached that score. *)
C1_BestIsMax ==
    (Quiet /\ nPersist = Len(okHist)) =>
        \A t \in Teams, c \in Cases :
            /\ StoredScore(TeamLabel(t), c) = MaxOkScore(t, c)
            /\ OkRows(t, c) # {} => CellTime(BestCellOf(TeamLabel(t), c)) = FirstMaxTime(t, c)

\* Two ok submissions of one team and case, the later one not higher.
C1_Witness ==
    /\ Quiet /\ nPersist = 2 /\ Len(okHist) = 2
    /\ okHist[1].team = okHist[2].team /\ okHist[1].case = okHist[2].case
    /\ okHist[2].score <= okHist[1].score
    /\ StoredScore(okHist[1].team, okHist[1].case) = okHist[1].score

(* C2 as stated: a call whose upload has no predict column, or whose answer file is     *)
(* absent, returns status error, score 0 and a message naming the missing item, and    *)
(* leaves the three files as it found them.                                            *)
C2_Original ==
    \A p \in Procs :
        (pc[p] = "done" /\ (loc[p].upkind = "nopredict" \/ answers[loc[p].case].kind = "absent")) =>
            /\ result[p].status = "error" /\ result[p].score = 0
            /\ \/ loc[p].upkind = "nopredict" /\ result[p].details = "no_predict_column"
               \/ answers[loc[p].case].kind = "absent" /\ result[p].details = "no_answer_file"
            /\ Files = initFiles[p]

(* C2 amended: status error, score 0 and unchanged files in all those calls; the       *)
(* message names the missing predict column when the upload parses without it, and the *)
(* missing answer file when the upload parses and its predict column coerces to int.   *)
C2_Amended ==
    \A p \in Procs :
        (pc[p] = "done" /\ (loc[p].upkind = "nopredict" \/ answers[loc[p].case].kind = "absent")) =>
            /\ result[p].status = "error" /\ result[p].score = 0
            /\ loc[p].upkind = "nopredict" => result[p].details = "no_predict_column"
            /\ (loc[p].upkind = "ok" /\ answers[loc[p].case].kind = "absent") =>
                   result[p].details = "no_answer_file"
            /\ Files = initFiles[p]

\* A call with a good upload finds the answer file absent, after an earlier call wrote the ledgers.
C2_Witness ==
    /\ pc[1] = "done" /\ loc[1].upkind = "ok" /\ answers[loc[1].case].kind = "absent"
    /\ result[1] = ErrorResult("no_answer_file")
    /\ Len(LogRows(save_db)) = 1

(* C3 as stated, for runs without a crash or a failed write: between calls the audit   *)
(* log has one row per call that reached the persistence stage.                        *)
C3_AuditCountsEveryCall ==
    (Quiet /\ ~faulted) => Len(LogRows(save_db)) = nPersist

(* C5: no exception leaves run_scoring; a call in which one was raised returns status  *)
(* error, score 0 and the exception's message; status ok comes only after all three    *)
(* writers have written.                                                               *)
C5_NeverRaises ==
    \A p \in Procs :
        /\ pc[p] # "raised"
        /\ pc[p] = "done" => result[p].status \in {"ok", "error"}
        /\ (pc[p] = "done" /\ loc[p].exc # "none") => result[p] = ErrorResult(loc[p].exc)
        /\ result[p].status = "ok" => (pc[p] = "done" /\ loc[p].written = 3 /\ loc[p].exc = "none")

\* A write of the audit log fails after the two other writers have written.
C5_Witness ==
    /\ pc[1] = "done" /\ loc[1].exc = "OSError" /\ loc[1].written = 2
    /\ result[1].status = "error"

(* C6 as stated: a call that reached the persistence stage, found one of its ledger    *)
(* files malformed and met no failing write returns status ok, and each file that was  *)
(* malformed is then a table of the expected columns holding the submission.           *)
C6_CorruptionNeverErrors ==
    \A p \in Procs :
        (/\ pc[p] = "done" /\ loc[p].persist /\ loc[p].exc # "OSError"
         /\ \/ Malformed(initFiles[p][1], BestCols)
            \/ Malformed(initFiles[p][2], LogCols)
            \/ Malformed(initFiles[p][3], LogCols)) =>
            /\ result[p].status = "ok"
            /\ Malformed(initFiles[p][1], BestCols) =>
                   save_score.rows = <<NewBestRow(TeamLabel(loc[p].team), loc[p].case,
                                                  FormatCell(loc[p].score, loc[p].at))>>
            /\ Malformed(initFiles[p][2], LogCols) =>
                   LogRows(score_recent) = <<LogRow(loc[p].team, loc[p].case, loc[p].score, loc[p].at)>>
            /\ Malformed(initFiles[p][3], LogCols) =>
                   LogRows(save_db) = <<LogRow(loc[p].team, loc[p].case, loc[p].score, loc[p].at)>>

(* C9: a write of a best-score table that had the three columns leaves every row in    *)
(* place, changes no cell but that of the call's team and case, appends a row only for *)
(* a team that had none, with the other case's cell empty, and keeps one row per team. *)
C9_FrameStep ==
    \A p \in Procs :
        (pc[p] = "save_score_write" /\ pc'[p] = "append_recent_read"
         /\ save_score.kind = "table" /\ BestCols \subseteq save_score.cols) =>
            LET old == save_score.rows
                new == save_score'.rows
                label == TeamLabel(loc[p].team)
            IN  /\ Len(new) \in {Len(old), Len(old) + 1}
                /\ \A i \in 1..Len(old) :
                       /\ new[i].team = old[i].team
                       /\ \A c \in Cases :
                              (old[i].team # label \/ c # loc[p].case) => new[i][c] = old[i][c]
                /\ Len(new) = Len(old) + 1 =>
                       /\ ~\E i \in 1..Len(old) : old[i].team = label
                       /\ new[Len(new)].team = label
                       /\ \A c \in Cases \ {loc[p].case} : new[Len(new)][c] = <<>>
                /\ \A i, j \in 1..Len(new) : new[i].team = new[j].team => i = j

\* C9: the frame condition holds of every step.
C9_Frame == [][C9_FrameStep]_vars

\* A row that was updated in place: both of its cells are filled.
C9_Witness ==
    /\ save_score.kind = "table" /\ BestCols \subseteq save_score.cols
    /\ Len(save_score.rows) = 1
    /\ save_score.rows[1].case2 # <<>> /\ save_score.rows[1].case3 # <<>>

C4_RecentWindow ==
    (Quiet /\ nPersist = Len(okHist)) =>
        LET n == Len(okHist)
            kept == Min(n, MAX_RECENT)
            shown == Min(view.limit, kept)
        IN  /\ Len(LogRows(score_recent)) = kept
            /\ \A i \in 1..kept : LogRows(score_recent)[i] = okHist[n - kept + i]
            /\ view.limit >= 0 =>
                   /\ Len(view.rows) = shown
                   /\ \A i \in 1..shown : view.rows[i] = okHist[n + 1 - i]

\* Eleven submissions, the oldest dropped, and the five most recent read back.
C4_Witness ==
    /\ Quiet /\ Len(okHist) = MAX_RECENT + 1
    /\ Len(LogRows(score_recent)) = MAX_RECENT
    /\ LogRows(score_recent)[1] = okHist[2]
    /\ okHist[1].score # okHist[2].score
    /\ view.limit = 5 /\ Len(view.rows) = 5 /\ view.rows[1] = okHist[MAX_RECENT + 1]

(* C7: when the two callers have both returned ok and both had read a ledger before    *)
(* either wrote it, the ledger holds the last writer's table alone: its one row, and   *)
(* for the best-score table its one cell, whatever the other caller submitted.         *)
C7_LastWriterWins ==
    (\A p \in Procs : pc[p] = "done" /\ result[p].status = "ok") =>
        /\ overlap["save_db"] =>
               LET w == loc[lastWriter["save_db"]]
               IN  LogRows(save_db) = <<LogRow(w.team, w.case, w.score, w.at)>>
        /\ overlap["score_recent"] =>
               LET w == loc[lastWriter["score_recent"]]
               IN  LogRows(score_recent) = <<LogRow(w.team, w.case, w.score, w.at)>>
        /\ overlap["save_score"] =>
               LET w == loc[lastWriter["save_score"]]
               IN  /\ Len(save_score.rows) = 1
                   /\ save_score.rows[1].team = TeamLabel(w.team)
                   /\ ParseScoreFromCell(save_score.rows[1][w.case]) = w.score
                   /\ CellTime(save_score.rows[1][w.case]) = w.at
                   /\ \A c \in Cases \ {w.case} : save_score.rows[1][c] = <<>>

\* Both calls returned ok; the audit log has one row, and the cell of the team and case
\* both submitted for is below the higher of the two scores.
C7_Witness ==
    /\ \A p \in Procs : pc[p] = "done" /\ result[p].status = "ok"
    /\ Len(LogRows(save_db)) < Len(okHist)
    /\ loc[1].team = loc[2].team /\ loc[1].case = loc[2].case
    /\ \E p \in Procs : StoredScore(TeamLabel(loc[p].team), loc[p].case) < loc[p].score

(* C8: with m the shorter of the two lengths, the call returns the empty-data error    *)
(* when m = 0; otherwise its score is 100 * e / m to the nearest hundredth, e being    *)
(* the number of the first m positions where predict and answer agree, and lies in     *)
(* [0, 100]; predict 1,0,1,1,0,0,0 against answer 1,0,1,0,0 scores 80.0.               *)
C8_Accuracy ==
    pc[1] # "idle" =>
        LET predict == loc[1].predict
            answer == answers[loc[1].case].vals
            m == IF Len(predict) < Len(answer) THEN Len(predict) ELSE Len(answer)
            e == Cardinality({i \in 1..m : predict[i] = answer[i]})
            score == loc[1].score
            diff == score * m - 10000 * e
        IN  IF m = 0
                THEN pc[1] = "done" /\ result[1] = ErrorResult("empty_data")
                ELSE /\ pc[1] = "save_score_read" /\ loc[1].persist
                     /\ 0 <= score /\ score <= 10000
                     /\ 2 * diff <= m /\ -2 * diff <= m
                     /\ (predict = <<1, 0, 1, 1, 0, 0, 0>> /\ answer = <<1, 0, 1, 0, 0>>) =>
                            score = 8000

\* The example of the claim: seven predictions against five answers.
C8_Witness ==
    /\ pc[1] = "save_score_read"
    /\ loc[1].predict = <<1, 0, 1, 1, 0, 0, 0>>
    /\ answers["case2"].vals = <<1, 0, 1, 0, 0>>
    /\ loc[1].score = 8000

====
